---- MODULE Spec2Model ----
(***************************************************************************)
(* Cart-and-order consistency engine of the storefront.                    *)
(*                                                                         *)
(* The remote store (tables products, cart_items, orders with their        *)
(* constraints and row-level-security policies) is shared by all browser   *)
(* sessions.  Every session owns one CartProvider state.  A cart operation *)
(* is a task that runs in a session; each store call it awaits is one      *)
(* atomic step, so tasks of the same or of different sessions interleave   *)
(* at the awaits, exactly as promises do.                                  *)
(***************************************************************************)
EXTENDS Integers, FiniteSets, Sequences, TLC

(* ------------------------------ bounds -------------------------------- *)
MaxOps == 2         \* cart and checkout operations started in one run
MaxAdminOps == 1    \* catalog edits by the administrator in one run
MaxFailures == 1    \* store calls that fail in one run
MaxStatusOps == 2   \* order status updates in one run

Sessions == {"s1", "s2"}
Tasks == {"t1", "t2", "t3"}
Users == {"u1", "adm"}
NoUser == "none"
Products == {"pA", "pB"}
NoProduct == "none"

AddQtys == {-1, 0, 1, 2}
UpdQtys == {-5, 0, 3}

(* profiles.is_admin / profiles.role = 'admin' *)
IsAdmin(u) == u = "adm"

(* price in cents: products.price is numeric(10,2) *)
PriceA == 24900
PriceB == 4500
Prices == {PriceA, PriceB}
Names == {"polo", "tote"}
EditedProducts == {"pA"}
Addresses == {"complete", "incomplete", "absent"}
Statuses == {"pending", "processing", "shipped", "completed", "cancelled"}

VARIABLES
  products,     \* table products: [Products -> [exists, name, price, is_active]]
  cart_items,   \* table cart_items: set of rows [id, user_id, product_id, quantity]
  nextId,       \* next fresh cart_items.id
  orders,       \* table orders: sequence of rows, the id is the index
  user,         \* AuthContext user of every session (NoUser when signed out)
  state,        \* CartProvider state of every session
  pc,           \* position of every task
  loc,          \* locals of every task
  opsStarted,   \* number of cart operations started so far
  adminOps,     \* number of catalog edits so far
  failures,     \* number of failed store calls so far
  statusOps,    \* number of order status updates so far
  hist          \* history: the operations completed so far, when recorded

vars == <<products, cart_items, nextId, orders, user, state, pc, loc, opsStarted, adminOps, failures,
          statusOps, hist>>

NoRow == [id |-> 0, user_id |-> NoUser, product_id |-> NoProduct, quantity |-> 0]
NoProductRow == [resolved |-> FALSE, name |-> "none", price |-> 0, is_active |-> FALSE]

EmptyState == [items |-> {}, total |-> 0, itemCount |-> 0, loading |-> FALSE]

NoOrder == [user_id |-> NoUser, products |-> {}, total |-> 0, status |-> "none",
            shipping_address |-> "absent"]

IdleLoc == [sess |-> "s1", u |-> NoUser, op |-> "none", product |-> NoProduct,
            itemId |-> 0, quantity |-> 0, existing |-> NoRow, err |-> FALSE,
            fetched |-> {}, order |-> NoOrder, result |-> "none",
            pre |-> {}, failed |-> FALSE, readFailed |-> FALSE]

(* ------------------------- the remote store --------------------------- *)

(* a cart_items table without row level security *)
VisibleAll(u) == cart_items

(* RLS "Users can manage own cart items": USING (user_id = auth.uid()) *)
Visible(u) == {r \in cart_items : r.user_id = u}

(* RLS "Anyone can view active products" / "Admins can manage all products" *)
ProductVisible(u, p) ==
  /\ products[p].exists
  /\ (products[p].is_active \/ IsAdmin(u))

\* the embedded resource `product:products` of one cart row
JoinProduct(u, p) ==
  IF ProductVisible(u, p)
    THEN [resolved |-> TRUE, name |-> products[p].name, price |-> products[p].price,
          is_active |-> products[p].is_active]
    ELSE NoProductRow

(* cart.getItems on a successful read *)
getItems(u) ==
  {[id |-> r.id, product_id |-> r.product_id, quantity |-> r.quantity,
    product |-> JoinProduct(u, r.product_id)] : r \in Visible(u)}

(* a cart_items table without its CHECK on quantity *)
QuantityCheckNone(q) == TRUE

(* CHECK (quantity > 0) *)
QuantityCheck(q) == q > 0

(* a cart_items table without its UNIQUE constraint *)
UniqueCheckNone(u, p) == TRUE

(* UNIQUE(user_id, product_id) *)
UniqueCheck(u, p) == ~ \E r \in cart_items : r.user_id = u /\ r.product_id = p

(* calculateTotals: reading item.product.price throws when product is null *)
Throws(items) == \E i \in items : ~ i.product.resolved

RECURSIVE SumAmount(_)
SumAmount(items) ==
  IF items = {} THEN 0
  ELSE LET i == CHOOSE x \in items : TRUE
       IN i.product.price * i.quantity + SumAmount(items \ {i})

RECURSIVE SumQuantity(_)
SumQuantity(items) ==
  IF items = {} THEN 0
  ELSE LET i == CHOOSE x \in items : TRUE
       IN i.quantity + SumQuantity(items \ {i})

(* totals that count the lines of active products only *)
calculateTotalsActiveOnly(items) ==
  [total |-> SumAmount({i \in items : i.product.is_active}),
   itemCount |-> SumQuantity({i \in items : i.product.is_active})]

calculateTotals(items) ==
  [total |-> SumAmount(items), itemCount |-> SumQuantity(items)]


(* ---------------- row operations of the remote store ------------------ *)
(* Each returns the table after the call and the `error` of the response. *)

(* update cart_items set quantity = q where id = itemId, .select().single() *)
StoreUpdateQuantity(u, itemId, q) ==
  LET hit == {r \in Visible(u) : r.id = itemId} IN
  IF hit = {} THEN [rows |-> cart_items, error |-> TRUE]
  ELSE IF ~ QuantityCheck(q) THEN [rows |-> cart_items, error |-> TRUE]
  ELSE [rows |-> {IF r \in hit THEN [r EXCEPT !.quantity = q] ELSE r : r \in cart_items},
        error |-> FALSE]

(* insert into cart_items (user_id, product_id, quantity) *)
StoreInsert(u, p, q) ==
  IF /\ products[p].exists
     /\ QuantityCheck(q)
     /\ UniqueCheck(u, p)
    THEN [rows |-> cart_items \cup
                     {[id |-> nextId, user_id |-> u, product_id |-> p, quantity |-> q]},
          error |-> FALSE]
    ELSE [rows |-> cart_items, error |-> TRUE]

(* a delete that answers an error when it matches no row *)
StoreDeleteStrict(u, itemId) ==
  IF {r \in Visible(u) : r.id = itemId} = {}
    THEN [rows |-> cart_items, error |-> TRUE]
    ELSE [rows |-> {r \in cart_items : ~ (r.user_id = u /\ r.id = itemId)},
          error |-> FALSE]

(* delete from cart_items where id = itemId: no row is no error *)
StoreDelete(u, itemId) ==
  [rows |-> cart_items \ {r \in Visible(u) : r.id = itemId}, error |-> FALSE]

(* delete from cart_items where user_id = userId *)
StoreDeleteAll(u, userId) ==
  [rows |-> cart_items \ {r \in Visible(u) : r.user_id = userId}, error |-> FALSE]

(* a call that never reached the store *)
StoreFailed == [rows |-> cart_items, error |-> TRUE]

(* select * from cart_items where user_id = u and product_id = p, .single() *)
SelectExisting(u, p) ==
  LET hit == {r \in Visible(u) : r.product_id = p} IN
  IF Cardinality(hit) = 1 THEN CHOOSE r \in hit : TRUE ELSE NoRow

(* insert into orders: RLS "Users can create own orders", the CHECKs on   *)
(* total and status, shipping_address NOT NULL                            *)
StoreInsertOrder(u, order) ==
  IF /\ order.user_id = u
     /\ order.total >= 0
     /\ order.status \in Statuses
     /\ order.shipping_address # "absent"
    THEN [rows |-> Append(orders, order), error |-> FALSE]
    ELSE [rows |-> orders, error |-> TRUE]

(* update orders set status = st where id = orderId, .select().single():  *)
(* RLS "Admins can update all orders", CHECK (status IN (...))            *)
StoreUpdateStatus(by, orderId, st) ==
  IF /\ IsAdmin(by)
     /\ orderId \in DOMAIN orders
     /\ st \in Statuses
    THEN [rows |-> [orders EXCEPT ![orderId].status = st], error |-> FALSE]
    ELSE [rows |-> orders, error |-> TRUE]

(* ------------------ supabaseClient.ts: the cart helper ---------------- *)

(* addItem that overwrites the quantity of the line found *)
addItemOverwrites(u, existingItem, p, q) ==
  IF existingItem # NoRow
    THEN StoreUpdateQuantity(u, existingItem.id, q)
    ELSE StoreInsert(u, p, q)

(* cart.addItem after its select: update the line found, else insert *)
addItem(u, existingItem, p, q) ==
  IF existingItem # NoRow
    THEN StoreUpdateQuantity(u, existingItem.id, existingItem.quantity + q)
    ELSE StoreInsert(u, p, q)

(* cart.removeItem *)
removeItem(u, itemId) == StoreDelete(u, itemId)

(* cart.updateQuantity *)
updateQuantity(u, itemId, q) ==
  IF q <= 0 THEN removeItem(u, itemId) ELSE StoreUpdateQuantity(u, itemId, q)

(* clearCart that deletes only the lines of products still on sale *)
clearCartActiveOnly(u) ==
  [rows |-> {r \in cart_items :
               ~ (r.user_id = u /\ products[r.product_id].is_active)},
   error |-> FALSE]

(* cart.clearCart *)
clearCart(u) == StoreDeleteAll(u, u)

(* orders.create that loses the items of the order *)
ordersCreateDropsItems(u, order) ==
  StoreInsertOrder(u, [order EXCEPT !.products = {}])

(* orders.create that sends its insert twice *)
ordersCreateTwice(u, order) ==
  [rows |-> Append(Append(orders, order), order), error |-> FALSE]

(* orders.create *)
ordersCreate(u, order) == StoreInsertOrder(u, order)

(* orders.updateStatus *)
ordersUpdateStatus(by, orderId, st) == StoreUpdateStatus(by, orderId, st)

(* ------------------------------- Init --------------------------------- *)
(* The sessions are mounted and signed in, the store holds the cart lines  *)
(* of earlier visits and every session has refreshed its view from it.     *)
Row(id, u, p, q) == [id |-> id, user_id |-> u, product_id |-> p, quantity |-> q]

InitScenarios ==
  { [user |-> [s \in Sessions |-> "u1"], rows |-> {Row(1, "u1", "pA", 1)}],
    [user |-> [s \in Sessions |-> IF s = "s1" THEN "adm" ELSE "u1"],
     rows |-> {Row(1, "adm", "pA", 2), Row(2, "adm", "pB", 1), Row(3, "u1", "pA", 1)}],
    [user |-> [s \in Sessions |-> IF s = "s1" THEN "u1" ELSE NoUser], rows |-> {}] }

(* refreshCart: `if (!user)` sets an empty view and returns *)
RefreshNoUserKeeps(prev) == prev

RefreshNoUser(prev) == [prev EXCEPT !.items = {}, !.total = 0, !.itemCount = 0]

RefreshedState(u) ==
  IF u = NoUser THEN RefreshNoUser(EmptyState) ELSE
  [items |-> getItems(u), total |-> calculateTotals(getItems(u)).total,
   itemCount |-> calculateTotals(getItems(u)).itemCount, loading |-> FALSE]

InitBase ==
  /\ products = [p \in Products |->
                   [exists |-> TRUE, name |-> IF p = "pA" THEN "polo" ELSE "tote",
                    price |-> IF p = "pA" THEN PriceA ELSE PriceB, is_active |-> TRUE]]
  /\ \E sc \in InitScenarios : cart_items = sc.rows /\ user = sc.user
  /\ nextId = Cardinality(cart_items) + 1
  /\ orders = <<>>
  /\ state = [s \in Sessions |-> RefreshedState(user[s])]
  /\ pc = [t \in Tasks |-> "idle"]
  /\ loc = [t \in Tasks |-> IdleLoc]
  /\ opsStarted = 0
  /\ adminOps = 0
  /\ failures = 0
  /\ statusOps = 0

Init == InitBase /\ hist = [on |-> FALSE, ops |-> <<>>]

InitSeq == InitBase /\ hist = [on |-> TRUE, ops |-> <<>>]

(* a store call of this step fails (network, service) or goes through *)
CallFails == failures < MaxFailures /\ failures' = failures + 1
CallWorks == failures' = failures

(* history: the completed operation, its arguments, whether a call of it   *)
(* failed to reach the store, whether its read did, the user's store rows  *)
(* when it started and when it returned, the view it left and the number   *)
(* of catalog edits made so far                                            *)
Completed(l, result) ==
  [op |-> l.op, sess |-> l.sess, u |-> l.u, product |-> l.product, itemId |-> l.itemId,
   quantity |-> l.quantity, order |-> l.order, result |-> result, err |-> l.err,
   failed |-> l.failed, readFailed |-> l.readFailed, pre |-> l.pre]

Record(l, result, rows, view) ==
  hist' = IF hist.on
            THEN [hist EXCEPT !.ops = Append(@, [done |-> Completed(l, result),
                                                 post |-> {r \in rows : r.user_id = l.u},
                                                 view |-> view, admin |-> adminOps])]
            ELSE hist

(* --------------------- CartContext.tsx: CartProvider ------------------ *)
(* one operation at a time in every session *)
(* t1 and t3 are calls made in session s1, t2 is a call made in s2 *)
TaskSession(t) == IF t = "t2" THEN "s2" ELSE "s1"

(* one call at a time in each of the two sessions *)
TabTasks == {"t1", "t2"}

(* two calls that overlap in one session *)
OverlappingTasks == {"t1", "t3"}

(* the ids a caller can name: the store's rows, the lines of its view and *)
(* the lines it has seen before (a second click on a line already removed) *)
KnownIds(s) == 1..(nextId - 1)

Locals(s, args) ==
  [k \in DOMAIN IdleLoc |->
     IF k \in DOMAIN args THEN args[k]
     ELSE IF k = "sess" THEN s
     ELSE IF k = "u" THEN user[s]
     ELSE IF k = "pre" THEN (IF hist.on THEN Visible(user[s]) ELSE {})
     ELSE IdleLoc[k]]

(* `if (!user)` of the handlers *)
AuthenticatedAlways(u) == TRUE

Authenticated(u) == u # NoUser

(* a handler is called: `if (!user) return`, else its first store call is sent *)
Start(t, s, args, first) ==
  /\ pc[t] = "idle"
  /\ s = TaskSession(t)
  /\ opsStarted < MaxOps
  /\ opsStarted' = opsStarted + 1
  /\ IF ~ Authenticated(user[s])
       THEN /\ loc' = [loc EXCEPT ![t] = [IdleLoc EXCEPT !.result =
                          IF args.op = "add" THEN "error" ELSE "none"]]
            /\ pc' = pc
            /\ Record(Locals(s, args), IF args.op = "add" THEN "error" ELSE "none",
                      cart_items, state[s])
       ELSE /\ loc' = [loc EXCEPT ![t] = Locals(s, args)]
            /\ pc' = [pc EXCEPT ![t] = first]
            /\ hist' = hist
  /\ UNCHANGED <<products, cart_items, nextId, orders, user, state, adminOps,
                 failures, statusOps>>

(* the synchronous head of refreshCart, run by the step that awaits it *)
RefreshBegin(t, s, u) ==
  /\ state' = [state EXCEPT ![s] = [@ EXCEPT !.loading = TRUE]]
  /\ pc' = [pc EXCEPT ![t] = "getItems"]

(* the store write of a cart operation, then `await refreshCart()` *)
WriteThenRefresh(t, res) ==
  /\ cart_items' = res.rows
  /\ nextId' = IF Cardinality(res.rows) > Cardinality(cart_items)
                 THEN nextId + 1 ELSE nextId
  /\ loc' = [loc EXCEPT ![t].err = res.error,
                        ![t].failed = IF hist.on THEN @ \/ failures' # failures ELSE @]
  /\ RefreshBegin(t, loc[t].sess, loc[t].u)
  /\ UNCHANGED <<products, orders, user, opsStarted, adminOps, statusOps, hist>>

(* addToCart(product, quantity) *)
AddToCartStart(t, s, p, n) ==
  Start(t, s, [op |-> "add", product |-> p, quantity |-> n], "addItem_select")

AddItemSelect(t) ==
  /\ pc[t] = "addItem_select"
  /\ \/ /\ CallWorks
        /\ loc' = [loc EXCEPT ![t].existing = SelectExisting(loc[t].u, loc[t].product)]
     \/ /\ CallFails
        /\ loc' = [loc EXCEPT ![t].existing = NoRow,
                              ![t].failed = IF hist.on THEN TRUE ELSE @]
  /\ pc' = [pc EXCEPT ![t] = "addItem_write"]
  /\ UNCHANGED <<products, cart_items, nextId, orders, user, state, opsStarted,
                 adminOps, statusOps, hist>>

AddItemWrite(t) ==
  /\ pc[t] = "addItem_write"
  /\ \/ CallWorks /\ WriteThenRefresh(t, addItem(loc[t].u, loc[t].existing,
                                                 loc[t].product, loc[t].quantity))
     \/ CallFails /\ WriteThenRefresh(t, StoreFailed)

(* removeFromCart(itemId) *)
RemoveFromCartStart(t, s, itemId) ==
  Start(t, s, [op |-> "remove", itemId |-> itemId], "removeItem")

RemoveItemWrite(t) ==
  /\ pc[t] = "removeItem"
  /\ \/ CallWorks /\ WriteThenRefresh(t, removeItem(loc[t].u, loc[t].itemId))
     \/ CallFails /\ WriteThenRefresh(t, StoreFailed)

(* updateQuantity(itemId, quantity) *)
UpdateQuantityStart(t, s, itemId, q) ==
  Start(t, s, [op |-> "update", itemId |-> itemId, quantity |-> q], "updateQuantity")

UpdateQuantityWrite(t) ==
  /\ pc[t] = "updateQuantity"
  /\ \/ CallWorks /\ WriteThenRefresh(t, updateQuantity(loc[t].u, loc[t].itemId,
                                                        loc[t].quantity))
     \/ CallFails /\ WriteThenRefresh(t, StoreFailed)

(* clearCart() *)
ClearCartStart(t, s) ==
  Start(t, s, [op |-> "clear"], "clearCart")

ClearCartWrite(t) ==
  /\ pc[t] = "clearCart"
  /\ \/ CallWorks /\ WriteThenRefresh(t, clearCart(loc[t].u))
     \/ CallFails /\ WriteThenRefresh(t, StoreFailed)

(* refreshCart: `await cart.getItems(user.id)`; an error answers [] *)
RefreshGetItems(t) ==
  /\ pc[t] = "getItems"
  /\ \/ /\ CallWorks
        /\ loc' = [loc EXCEPT ![t].fetched = getItems(loc[t].u)]
     \/ /\ CallFails
        /\ loc' = [loc EXCEPT ![t].fetched = {},
                              ![t].failed = IF hist.on THEN TRUE ELSE @,
                              ![t].readFailed = IF hist.on THEN TRUE ELSE @]
  /\ pc' = [pc EXCEPT ![t] = "publish"]
  /\ UNCHANGED <<products, cart_items, nextId, orders, user, state, opsStarted,
                 adminOps, statusOps, hist>>

(* a refresh that publishes the fetched lines without recomputing totals *)
PublishedKeepsTotals(prev, fetched) ==
  IF Throws(fetched)
    THEN [prev EXCEPT !.loading = FALSE]
    ELSE [items |-> fetched, total |-> prev.total,
          itemCount |-> prev.itemCount, loading |-> FALSE]

(* the value refreshCart hands to setState, given the previous state *)
Published(prev, fetched) ==
  IF Throws(fetched)
    THEN [prev EXCEPT !.loading = FALSE]
    ELSE [items |-> fetched, total |-> calculateTotals(fetched).total,
          itemCount |-> calculateTotals(fetched).itemCount, loading |-> FALSE]

(* what the caller is told when the operation returns.  No handler's catch *)
(* is ever entered: the helpers answer {data, error} without throwing and  *)
(* refreshCart catches its own errors.                                     *)
Toast(op) ==
  IF op \in {"add", "remove", "clear"} THEN "success"
  ELSE IF op = "checkout" THEN "ok"
  ELSE "none"

RefreshPublish(t) ==
  /\ pc[t] = "publish"
  /\ state' = [state EXCEPT ![loc[t].sess] = Published(@, loc[t].fetched)]
  /\ loc' = [loc EXCEPT ![t] = [IdleLoc EXCEPT !.result = Toast(loc[t].op)]]
  /\ pc' = [pc EXCEPT ![t] = "idle"]
  /\ Record(loc[t], Toast(loc[t].op), cart_items, state'[loc[t].sess])
  /\ UNCHANGED <<products, cart_items, nextId, orders, user, opsStarted, adminOps,
                 failures, statusOps>>

(* AuthContext signOut: setUser(null); the provider's effect on [user]    *)
(* then runs refreshCart, which finds no user                             *)
SignOut(s) ==
  /\ user[s] # NoUser
  /\ opsStarted < MaxOps
  /\ opsStarted' = opsStarted + 1
  /\ user' = [user EXCEPT ![s] = NoUser]
  /\ state' = [state EXCEPT ![s] = RefreshNoUser(@)]
  /\ Record(Locals(s, [op |-> "signout"]), "none", cart_items, state'[s])
  /\ UNCHANGED <<products, cart_items, nextId, orders, pc, loc, adminOps, failures,
                 statusOps>>

(* ------------------------- checkout: createOrder ---------------------- *)
ActiveLines(items) == {i \in items : i.product.resolved /\ i.product.is_active}

Snapshot(i) == [product_id |-> i.product_id, title |-> i.product.name,
                price |-> i.product.price, quantity |-> i.quantity]

RECURSIVE SumSnapshots(_)
SumSnapshots(snaps) ==
  IF snaps = {} THEN 0
  ELSE LET x == CHOOSE y \in snaps : TRUE
       IN x.price * x.quantity + SumSnapshots(snaps \ {x})

BuildOrder(u, items, addr) ==
  [user_id |-> u, products |-> {Snapshot(i) : i \in ActiveLines(items)},
   total |-> SumSnapshots({Snapshot(i) : i \in ActiveLines(items)}),
   status |-> "pending", shipping_address |-> addr]

(* a checkout that does not look at the shipping address *)
VerdictNoAddressCheck(u, items, addr) ==
  IF u = NoUser THEN "Unauthenticated"
  ELSE IF items = {} THEN "EmptyCart"
  ELSE IF {i \in items : i.product.resolved /\ i.product.is_active} = {} THEN "EmptyCart"
  ELSE "accepted"

(* a checkout that does not look at the products' availability *)
VerdictNoActiveCheck(u, items, addr) ==
  IF u = NoUser THEN "Unauthenticated"
  ELSE IF items = {} THEN "EmptyCart"
  ELSE IF addr # "complete" THEN "ValidationError"
  ELSE "accepted"

Verdict(u, items, addr) ==
  IF u = NoUser THEN "Unauthenticated"
  ELSE IF items = {} THEN "EmptyCart"
  ELSE IF addr # "complete" THEN "ValidationError"
  ELSE IF ActiveLines(items) = {} THEN "EmptyCart"
  ELSE "accepted"

CreateOrderStart(t, s, addr) ==
  /\ pc[t] = "idle"
  /\ s = TaskSession(t)
  /\ opsStarted < MaxOps
  /\ opsStarted' = opsStarted + 1
  /\ LET l == Locals(s, [op |-> "checkout",
                         order |-> BuildOrder(user[s], state[s].items, addr)])
         v == Verdict(user[s], state[s].items, addr)
     IN IF v = "accepted"
          THEN /\ loc' = [loc EXCEPT ![t] = l]
               /\ pc' = [pc EXCEPT ![t] = "orders_create"]
               /\ hist' = hist
          ELSE /\ loc' = [loc EXCEPT ![t] = [IdleLoc EXCEPT !.result = v]]
               /\ pc' = pc
               /\ Record(l, v, cart_items, state[s])
  /\ UNCHANGED <<products, cart_items, nextId, orders, user, state, adminOps,
                 failures, statusOps>>

CreateOrderInsert(t) ==
  /\ pc[t] = "orders_create"
  /\ \/ /\ CallWorks
        /\ orders' = ordersCreate(loc[t].u, loc[t].order).rows
        /\ IF ordersCreate(loc[t].u, loc[t].order).error
             THEN /\ pc' = [pc EXCEPT ![t] = "idle"]
                  /\ loc' = [loc EXCEPT ![t] = [IdleLoc EXCEPT !.result = "error"]]
                  /\ Record([loc[t] EXCEPT !.err = TRUE], "error", cart_items,
                            state[loc[t].sess])
             ELSE /\ pc' = [pc EXCEPT ![t] = "checkout_clear"]
                  /\ UNCHANGED <<loc, hist>>
     \/ /\ CallFails
        /\ orders' = orders
        /\ pc' = [pc EXCEPT ![t] = "idle"]
        /\ loc' = [loc EXCEPT ![t] = [IdleLoc EXCEPT !.result = "error"]]
        /\ Record([loc[t] EXCEPT !.failed = TRUE], "error", cart_items,
                  state[loc[t].sess])
  /\ UNCHANGED <<products, cart_items, nextId, user, state, opsStarted, adminOps,
                 statusOps>>

CreateOrderClear(t) ==
  /\ pc[t] = "checkout_clear"
  /\ \/ CallWorks /\ WriteThenRefresh(t, clearCart(loc[t].u))
     \/ CallFails /\ WriteThenRefresh(t, StoreFailed)

(* --------------- admin panels: updateOrderStatus(orderId, status) ----- *)
\* Order['status']: the values the type and the panels' selects offer
StatusInputs == {"pending", "shipped", "completed", "cancelled"}

UpdateOrderStatus(by, orderId, st) ==
  /\ statusOps < MaxStatusOps
  /\ statusOps' = statusOps + 1
  /\ \/ CallWorks /\ orders' = ordersUpdateStatus(by, orderId, st).rows
     \/ CallFails /\ orders' = orders
  /\ UNCHANGED <<products, cart_items, nextId, user, state, pc, loc, opsStarted,
                 adminOps, hist>>

(* ---------------- the administrator's catalog edits ------------------- *)
AdminEdit ==
  /\ adminOps < MaxAdminOps
  /\ adminOps' = adminOps + 1
  /\ UNCHANGED <<nextId, orders, user, state, pc, loc, opsStarted, failures,
                 statusOps, hist>>

(* products.update(id, {is_active}) *)
ProductSetActive(p, b) ==
  /\ AdminEdit
  /\ products[p].exists
  /\ products[p].is_active # b
  /\ products' = [products EXCEPT ![p].is_active = b]
  /\ cart_items' = cart_items

(* a price edit that reaches the orders already placed, as if their items *)
(* referred to the product instead of copying it                          *)
ProductSetPriceLive(p, price) ==
  /\ adminOps < MaxAdminOps
  /\ adminOps' = adminOps + 1
  /\ products[p].exists
  /\ products[p].price # price
  /\ products' = [products EXCEPT ![p].price = price]
  /\ orders' = [o \in DOMAIN orders |->
                  [orders[o] EXCEPT !.products =
                     {IF x.product_id = p THEN [x EXCEPT !.price = price] ELSE x : x \in @}]]
  /\ UNCHANGED <<cart_items, nextId, user, state, pc, loc, opsStarted, failures,
                 statusOps, hist>>

(* products.update(id, {price}) *)
ProductSetPrice(p, price) ==
  /\ AdminEdit
  /\ products[p].exists
  /\ products[p].price # price
  /\ products' = [products EXCEPT ![p].price = price]
  /\ cart_items' = cart_items

(* products.update(id, {name}) *)
ProductSetName(p, name) ==
  /\ AdminEdit
  /\ products[p].exists
  /\ products[p].name # name
  /\ products' = [products EXCEPT ![p].name = name]
  /\ cart_items' = cart_items

(* products.delete(id): cart_items.product_id is ON DELETE CASCADE *)
ProductDelete(p) ==
  /\ AdminEdit
  /\ products[p].exists
  /\ products' = [products EXCEPT ![p].exists = FALSE]
  /\ cart_items' = {r \in cart_items : r.product_id # p}

(* ------------------------------ Next ---------------------------------- *)
TaskNext(t) ==
  \/ \E s \in Sessions, p \in Products, n \in AddQtys : AddToCartStart(t, s, p, n)
  \/ AddItemSelect(t)
  \/ AddItemWrite(t)
  \/ \E s \in Sessions : \E i \in KnownIds(s) : RemoveFromCartStart(t, s, i)
  \/ RemoveItemWrite(t)
  \/ \E s \in Sessions : \E i \in KnownIds(s), q \in UpdQtys :
       UpdateQuantityStart(t, s, i, q)
  \/ UpdateQuantityWrite(t)
  \/ \E s \in Sessions : ClearCartStart(t, s)
  \/ ClearCartWrite(t)
  \/ RefreshGetItems(t)
  \/ RefreshPublish(t)
  \/ \E s \in Sessions, addr \in Addresses : CreateOrderStart(t, s, addr)
  \/ CreateOrderInsert(t)
  \/ CreateOrderClear(t)

AdminNext(enabled) ==
  \/ \E p \in EditedProducts, b \in BOOLEAN : enabled /\ ProductSetActive(p, b)
  \/ \E p \in EditedProducts, price \in Prices : enabled /\ ProductSetPrice(p, price)
  \/ \E p \in EditedProducts, name \in Names : enabled /\ ProductSetName(p, name)
  \/ \E p \in EditedProducts : enabled /\ ProductDelete(p)
  \/ \E by \in Users, o \in DOMAIN orders, st \in StatusInputs :
       enabled /\ UpdateOrderStatus(by, o, st)

(* sessions in several tabs or devices, the administrator at work *)
Next ==
  \/ \E t \in TabTasks : TaskNext(t)
  \/ AdminNext(TRUE)
  \/ \E s \in Sessions : SignOut(s)

Spec == Init /\ [][Next]_vars

(* one session, one operation at a time, the administrator at work       *)
(* between the operations                                                *)
NextSeq ==
  \/ TaskNext("t1")
  \/ AdminNext(pc["t1"] = "idle")
  \/ pc["t1"] = "idle" /\ SignOut("s1")

SpecSeq == InitSeq /\ [][NextSeq]_vars

(* one session whose calls overlap (rapid clicks), nothing else at work *)
NextOverlap == \E t \in OverlappingTasks : TaskNext(t)

SpecOverlap == Init /\ [][NextOverlap]_vars

(* ============================ properties ============================== *)

(* C1: in every reachable state of the store, under any interleaving of   *)
(* the cart operations and checkout of one or several sessions, at most   *)
(* one cart line exists per (user, product) pair.                         *)
C1_OneLinePerUserProduct ==
  \A r1 \in cart_items, r2 \in cart_items :
    (r1.user_id = r2.user_id /\ r1.product_id = r2.product_id) => r1 = r2

(* two sessions of one user raced addItem for a product that had no line: *)
(* the second insert was refused by the store although every call worked *)
C1_RacingInsertRefused ==
  \E t \in Tasks :
    /\ pc[t] = "getItems" /\ loc[t].op = "add"
    /\ loc[t].existing = NoRow /\ loc[t].quantity >= 1 /\ loc[t].err
    /\ failures = 0 /\ adminOps = 0
    /\ \E r \in cart_items :
         r.user_id = loc[t].u /\ r.product_id = loc[t].product

(* C3: every stored cart line, and every line of a view, has a quantity   *)
(* >= 1, also after addItem or updateQuantity calls with a quantity <= 0. *)
C3_QuantitiesPositive ==
  /\ \A r \in cart_items : r.quantity >= 1
  /\ \A s \in Sessions : \A i \in state[s].items : i.quantity >= 1

(* addItem with a quantity <= 0 met a line it would have driven to <= 0  *)
(* and the store refused the update                                       *)
C3_NonPositiveAddRefused ==
  \E t \in Tasks :
    /\ pc[t] = "getItems" /\ loc[t].op = "add"
    /\ loc[t].existing # NoRow
    /\ loc[t].existing.quantity + loc[t].quantity <= 0
    /\ loc[t].err /\ failures = 0
    /\ \E r \in cart_items : r.id = loc[t].existing.id /\ r.quantity >= 1

(* the quantity a set of rows holds for a product, 0 when it has no line *)
QuantityOf(rows, p) ==
  IF \E r \in rows : r.product_id = p
    THEN (CHOOSE r \in rows : r.product_id = p).quantity
    ELSE 0

(* the operation was made for a signed-in user and every store call of it *)
(* went through                                                           *)
Worked(e) == e.done.u # NoUser /\ ~ e.done.failed /\ ~ e.done.err

(* C2: addItem(p, n1) then addItem(p, n2), n1, n2 >= 1, both run to       *)
(* completion with nothing changing the cart in between: the store holds  *)
(* exactly one line for (user, p), of quantity old + n1 + n2, where old   *)
(* is the quantity before the first call (0 without a line).              *)
C2_TwoAddsSum ==
  \A k \in 1..(Len(hist.ops) - 1) :
    LET a == hist.ops[k]
        b == hist.ops[k + 1]
    IN (/\ a.done.op = "add" /\ b.done.op = "add"
        /\ a.done.u = b.done.u /\ a.done.product = b.done.product
        /\ a.done.quantity >= 1 /\ b.done.quantity >= 1
        /\ Worked(a) /\ Worked(b)
        /\ b.done.pre = a.post)
       => /\ Cardinality({r \in b.post : r.product_id = a.done.product}) = 1
          /\ QuantityOf(b.post, a.done.product) =
               QuantityOf(a.done.pre, a.done.product)
                 + a.done.quantity + b.done.quantity

(* two such calls have completed on a line that existed before the first *)
C2_TwoAddsOnExistingLine ==
  /\ Len(hist.ops) = 2
  /\ hist.ops[1].done.op = "add" /\ hist.ops[2].done.op = "add"
  /\ hist.ops[1].done.product = hist.ops[2].done.product
  /\ hist.ops[1].done.quantity = 2 /\ hist.ops[2].done.quantity = 1
  /\ Worked(hist.ops[1]) /\ Worked(hist.ops[2])
  /\ hist.ops[2].done.pre = hist.ops[1].post
  /\ QuantityOf(hist.ops[1].done.pre, hist.ops[1].done.product) = 1
  /\ QuantityOf(hist.ops[2].post, hist.ops[1].done.product) = 4

CartOps == {"add", "update", "remove", "clear"}

(* a view line or a store row as (id, product, quantity) *)
Line(x) == [id |-> x.id, product_id |-> x.product_id, quantity |-> x.quantity]

(* C4: with one session and no concurrent mutator, when a mutating cart   *)
(* operation returns, the lines of the view are exactly the user's store  *)
(* rows, whether its store calls succeeded or failed.                     *)
C4_ViewEqualsStoreAfterOp ==
  \A k \in 1..Len(hist.ops) :
    hist.ops[k].done.op \in CartOps
      => {Line(i) : i \in hist.ops[k].view.items} = {Line(r) : r \in hist.ops[k].post}

(* ---- checkout, one session ---- *)
LastOp(h) == h.ops[Len(h.ops)]

(* this step is a call of createOrder that was turned down at once *)
CheckoutRejected ==
  /\ pc["t1"] = "idle" /\ pc'["t1"] = "idle"
  /\ Len(hist'.ops) = Len(hist.ops) + 1
  /\ LastOp(hist').done.op = "checkout"

(* this step is a call of createOrder that went on to persist the order *)
CheckoutAccepted == pc["t1"] = "idle" /\ pc'["t1"] = "orders_create"

ActiveItems(items) == {i \in items : i.product.is_active}
InactiveItems(items) == {i \in items : ~ i.product.is_active}

ExpectedItems(items) ==
  {[product_id |-> i.product_id, title |-> i.product.name,
    price |-> i.product.price, quantity |-> i.quantity] : i \in ActiveItems(items)}

(* C5: createOrder on a view with an active line and inactive lines goes  *)
(* through and persists an order whose items are the snapshots of exactly *)
(* the active lines and whose total is the sum of price x quantity over   *)
(* them, not the view's cached total.                                     *)
C5_OrderOfActiveLines ==
  [][LET items == state["s1"].items IN
     /\ (CheckoutRejected /\ ActiveItems(items) # {} /\ user["s1"] # NoUser)
          => LastOp(hist').done.order.shipping_address # "complete"
     /\ (pc["t1"] = "orders_create" /\ failures' = failures)
          => /\ Len(orders') = Len(orders) + 1
             /\ orders'[Len(orders')].user_id = user["s1"]
             /\ orders'[Len(orders')].status = "pending"
             /\ orders'[Len(orders')].products = ExpectedItems(items)
             /\ orders'[Len(orders')].total = SumAmount(ActiveItems(items))]_vars

(* an order was persisted from a view that holds an inactive line too *)
C5_OrderFromMixedView ==
  /\ pc["t1"] = "checkout_clear"
  /\ ActiveItems(state["s1"].items) # {}
  /\ InactiveItems(state["s1"].items) # {}
  /\ Len(orders) = 1
  /\ Cardinality(orders[1].products) = 1
  /\ orders[1].total < state["s1"].total

(* C6: createOrder on a non-empty view whose lines are all inactive fails *)
(* with EmptyCart, persists no order and leaves store and view unchanged. *)
C6_AllInactiveRejected ==
  [][(/\ pc["t1"] = "idle" /\ opsStarted' = opsStarted + 1
      /\ (CheckoutRejected \/ CheckoutAccepted)
      /\ state["s1"].items # {} /\ ActiveItems(state["s1"].items) = {}
      /\ user["s1"] # NoUser)
     => /\ CheckoutRejected
        /\ LastOp(hist').done.order.shipping_address = "complete"
             => LastOp(hist').done.result = "EmptyCart"
        /\ orders' = orders /\ cart_items' = cart_items /\ state' = state]_vars

(* such a call has been turned down with EmptyCart *)
C6_EmptyCartOnInactiveView ==
  /\ hist.ops # <<>>
  /\ LastOp(hist).done.op = "checkout" /\ LastOp(hist).done.result = "EmptyCart"
  /\ pc["t1"] = "idle"
  /\ state["s1"].items # {} /\ ActiveItems(state["s1"].items) = {}
  /\ LastOp(hist).post # {}

(* C7: after a createOrder that persisted its order and cleared the cart, *)
(* the store holds no line of the user and the refresh publishes an empty *)
(* view, the inactive lines left out of the order included.               *)
C7_EmptyAfterCheckout ==
  \A k \in 1..Len(hist.ops) :
    LET e == hist.ops[k] IN
    (e.done.op = "checkout" /\ e.done.result = "ok" /\ ~ e.done.err)
      => /\ e.post = {}
         /\ e.view = EmptyState

(* a checkout completed whose cart held a line that is not in the order *)
C7_CheckoutLeftInactiveOut ==
  /\ hist.ops # <<>>
  /\ LastOp(hist).done.op = "checkout" /\ LastOp(hist).done.result = "ok"
  /\ ~ LastOp(hist).done.err /\ ~ LastOp(hist).done.failed
  /\ Cardinality(LastOp(hist).done.pre) = 2
  /\ Cardinality(LastOp(hist).done.order.products) = 1
  /\ Len(orders) = 1

(* ---- order status ---- *)
Transitions ==
  {<<"pending", "processing">>, <<"processing", "shipped">>, <<"shipped", "completed">>,
   <<"pending", "cancelled">>, <<"processing", "cancelled">>}

Terminal == {"completed", "cancelled"}

(* C8: updateStatus leaves the status alone for every pair that is not in *)
(* the transition table; an order that is completed or cancelled never    *)
(* changes status again.                                                  *)
C8_TerminalStatusKept ==
  [][\A o \in DOMAIN orders :
       orders[o].status \in Terminal => orders'[o].status = orders[o].status]_vars

(* C9: every status history is a path of the state machine: a stored      *)
(* status is one of the five values and every change of status is a       *)
(* transition of the table, so no history skips a step.                   *)
C9_StatusHistoryIsPath ==
  [][\A o \in DOMAIN orders :
       /\ orders'[o].status \in Statuses
       /\ orders'[o].status # orders[o].status
            => <<orders[o].status, orders'[o].status>> \in Transitions]_vars

(* C10: updateQuantity(line, q) with q <= 0 on an existing line deletes   *)
(* the line from the store, changes no other line, and the view after the *)
(* following refresh does not show the line.                              *)
C10_NonPositiveUpdateRemoves ==
  \A k \in 1..Len(hist.ops) :
    LET e == hist.ops[k] IN
    (/\ e.done.op = "update" /\ e.done.quantity <= 0 /\ ~ e.done.failed
     /\ \E r \in e.done.pre : r.id = e.done.itemId)
      => /\ e.post = {r \in e.done.pre : r.id # e.done.itemId}
         /\ \A i \in e.view.items : i.id # e.done.itemId

(* ---- idempotence ---- *)
(* entries k and k+1 of the history are the same removal called twice in  *)
(* a row, with no store failure and no catalog edit in between            *)
Repeated(k) ==
  LET a == hist.ops[k]
      b == hist.ops[k + 1]
  IN /\ a.done.op \in {"remove", "clear"}
     /\ b.done.op = a.done.op
     /\ a.done.u # NoUser /\ b.done.u = a.done.u
     /\ a.done.op = "remove" => b.done.itemId = a.done.itemId
     /\ ~ a.done.failed /\ ~ b.done.failed
     /\ a.admin = b.admin

(* C11: removeItem called twice for the same line, or clearCart twice for *)
(* the same user, succeeds both times, and the store and the view after   *)
(* the second call are those after the first.                             *)
C11_RemovalIdempotent ==
  \A k \in 1..(Len(hist.ops) - 1) :
    Repeated(k)
      => LET a == hist.ops[k]
             b == hist.ops[k + 1]
         IN /\ a.done.result = "success" /\ b.done.result = "success"
            /\ ~ a.done.err /\ ~ b.done.err
            /\ b.post = a.post
            /\ b.view = a.view

(* a line was removed from a cart of two lines, then removed again *)
C11_RemovedTwice ==
  /\ Len(hist.ops) = 2
  /\ Repeated(1)
  /\ hist.ops[1].done.op = "remove"
  /\ \E r \in hist.ops[1].done.pre : r.id = hist.ops[1].done.itemId
  /\ hist.ops[1].post # {}
  /\ hist.ops[2].post = hist.ops[1].post

(* ---- derived totals ---- *)
(* C12: in every published view, total is the sum of price x quantity     *)
(* over the lines whose resolved product is active; the lines of inactive *)
(* products are in the view and add nothing to total.                     *)
C12_TotalOverActiveLines ==
  \A s \in Sessions : state[s].total = SumAmount(ActiveLines(state[s].items))

(* the operations so far: addToCart(A, 2) then addToCart(B, 1) on an      *)
(* empty cart, both products active and at their listed prices            *)
AddedTwoAndOne ==
  /\ Len(hist.ops) = 2
  /\ hist.ops[1].done.op = "add" /\ hist.ops[2].done.op = "add"
  /\ Worked(hist.ops[1]) /\ Worked(hist.ops[2])
  /\ hist.ops[1].done.pre = {}
  /\ hist.ops[1].done.product = "pA" /\ hist.ops[1].done.quantity = 2
  /\ hist.ops[2].done.product = "pB" /\ hist.ops[2].done.quantity = 1
  /\ hist.ops[2].admin = 0

Called == pc["t1"] = "idle" /\ opsStarted' = opsStarted + 1 /\ user' = user

(* C14: with no user signed in, addItem fails with Unauthenticated and    *)
(* sends nothing to the store: cart rows and view are unchanged.          *)
C14_AddWithoutUser ==
  [][(/\ Called /\ user["s1"] = NoUser
      /\ \/ loc'["t1"].op = "add"
         \/ Len(hist'.ops) > Len(hist.ops) /\ LastOp(hist').done.op = "add")
       => /\ Len(hist'.ops) = Len(hist.ops) + 1
          /\ LastOp(hist').done.result = "error"
          /\ pc'["t1"] = "idle"
          /\ failures' = failures
          /\ cart_items' = cart_items /\ nextId' = nextId
          /\ state' = state]_vars

(* addToCart was called after sign-out, the store still holding lines *)
C14_AddAfterSignOut ==
  /\ Len(hist.ops) = 2
  /\ hist.ops[1].done.op = "signout"
  /\ hist.ops[2].done.op = "add" /\ hist.ops[2].done.u = NoUser
  /\ hist.ops[2].done.result = "error"
  /\ cart_items # {}

(* ---- store failures ---- *)
(* C15: when the store rejects or fails the write of a cart mutation, the *)
(* operation reports failure, never success, and the view stays the last  *)
(* successfully refreshed one.                                            *)
C15_FailedWriteReported ==
  \A k \in 1..Len(hist.ops) :
    (hist.ops[k].done.op \in CartOps /\ hist.ops[k].done.err)
      => hist.ops[k].done.result = "error"

(* C16: when the read of refresh fails, the previously published view is  *)
(* left in place: lines, total and itemCount do not change.               *)
C16_FailedReadKeepsView ==
  [][(pc["t1"] = "publish" /\ loc["t1"].readFailed)
       => /\ state'["s1"].items = state["s1"].items
          /\ state'["s1"].total = state["s1"].total
          /\ state'["s1"].itemCount = state["s1"].itemCount]_vars

(* ---- orders ---- *)
(* C17: an order's owner, items, total and shipping address never change; *)
(* updateStatus changes the status of the targeted order only and no      *)
(* other order, cart line or product; product edits and deletions leave   *)
(* the snapshots of the orders alone.                                     *)
C17_OrderImmutable ==
  [][/\ Len(orders') >= Len(orders)
     /\ \A o \in DOMAIN orders :
          /\ orders'[o].user_id = orders[o].user_id
          /\ orders'[o].products = orders[o].products
          /\ orders'[o].total = orders[o].total
          /\ orders'[o].shipping_address = orders[o].shipping_address
     /\ statusOps' # statusOps
          => /\ cart_items' = cart_items /\ products' = products
             /\ Len(orders') = Len(orders)
             /\ Cardinality({o \in DOMAIN orders : orders'[o] # orders[o]}) <= 1]_vars

(* an order whose status was changed holds the snapshot of a product that *)
(* has since been edited or deleted                                       *)
C17_SnapshotOutlivesEdit ==
  \E o \in DOMAIN orders :
    /\ orders[o].status # "pending"
    /\ \E x \in orders[o].products :
         \/ ~ products[x.product_id].exists
         \/ products[x.product_id].price # x.price
         \/ products[x.product_id].name # x.title

(* C18: createOrder goes on to persist an order only when a user is       *)
(* signed in, the view is not empty and the shipping address is complete; *)
(* otherwise it fails with Unauthenticated, EmptyCart or ValidationError, *)
(* no order is created and no cart line is deleted.                       *)
C18_CheckoutPreconditions ==
  [][/\ CheckoutAccepted
          => /\ user["s1"] # NoUser
             /\ state["s1"].items # {}
             /\ loc'["t1"].order.shipping_address = "complete"
     /\ CheckoutRejected
          => /\ orders' = orders /\ cart_items' = cart_items
             /\ user["s1"] = NoUser
                  => LastOp(hist').done.result = "Unauthenticated"
             /\ (user["s1"] # NoUser /\ state["s1"].items = {})
                  => LastOp(hist').done.result = "EmptyCart"
             /\ (/\ user["s1"] # NoUser /\ state["s1"].items # {}
                 /\ LastOp(hist').done.order.shipping_address # "complete")
                  => LastOp(hist').done.result = "ValidationError"]_vars

(* a checkout of a cart with lines was turned down for its address *)
C18_RejectedForAddress ==
  /\ hist.ops # <<>>
  /\ LastOp(hist).done.op = "checkout"
  /\ LastOp(hist).done.result = "ValidationError"
  /\ LastOp(hist).done.order.shipping_address = "absent"
  /\ LastOp(hist).post # {}
  /\ orders = <<>>

(* C19: a createOrder call creates exactly one order, pending and owned   *)
(* by the caller, when it succeeds and none when it fails; no step ever   *)
(* removes an order.                                                      *)
C19_OneOrderPerCheckout ==
  [][/\ DOMAIN orders \subseteq DOMAIN orders'
     /\ Len(orders') > Len(orders)
          => /\ pc["t1"] = "orders_create" /\ pc'["t1"] = "checkout_clear"
             /\ orders'[Len(orders')].status = "pending"
             /\ orders'[Len(orders')].user_id = user["s1"]
     /\ (pc["t1"] = "orders_create" /\ pc'["t1"] = "checkout_clear")
          => Len(orders') = Len(orders) + 1
     /\ (pc["t1"] = "orders_create" /\ pc'["t1"] = "idle") => orders' = orders
     /\ CheckoutRejected => orders' = orders]_vars

(* a checkout whose insert failed was followed by one that went through *)
C19_FailedThenPlaced ==
  /\ Len(hist.ops) = 2
  /\ hist.ops[1].done.op = "checkout" /\ hist.ops[1].done.result = "error"
  /\ hist.ops[2].done.op = "checkout" /\ hist.ops[2].done.result = "ok"
  /\ Len(orders) = 1

(* ---- sign-out ---- *)
NoLines(v) == v.items = {} /\ v.total = 0 /\ v.itemCount = 0

(* C20: refresh with no user publishes an empty view, without a store     *)
(* call and without error; once sign-out has been processed the view      *)
(* holds no line of the user who left.                                    *)
C20_NoUserEmptyView ==
  /\ [](\A s \in Sessions : user[s] = NoUser => NoLines(state[s]))
  /\ [][\A s \in Sessions :
          (user[s] # NoUser /\ user'[s] = NoUser)
            => /\ NoLines(state'[s])
               /\ pc' = pc /\ failures' = failures
               /\ cart_items' = cart_items
               /\ LastOp(hist').done.result # "error"]_vars

(* a user whose view showed lines has signed out; the store keeps them *)
C20_SignedOutWithLines ==
  /\ hist.ops # <<>>
  /\ LastOp(hist).done.op = "signout"
  /\ LastOp(hist).done.u # NoUser
  /\ LastOp(hist).post # {}
  /\ user["s1"] = NoUser
  /\ NoLines(state["s1"])

(* ---- isolation between users ---- *)
OthersRows(rows, u) == {r \in rows : r.user_id # u}

(* C21: no step of a cart operation made for user U changes or deletes a  *)
(* line of another user, whatever line id it names, and the lines it      *)
(* reads for U's view are U's own.                                        *)
C21_OtherUsersLinesUntouched ==
  [][\A t \in Tasks :
       (pc[t] # "idle" /\ pc'[t] # pc[t])
         => /\ OthersRows(cart_items', loc[t].u) = OthersRows(cart_items, loc[t].u)
            /\ pc[t] = "getItems"
                 => \A i \in loc'[t].fetched :
                      \E r \in cart_items : r.id = i.id /\ r.user_id = loc[t].u]_vars

(* a removal or a quantity change named the line of another user *)
C21_NamedForeignLine ==
  \E t \in Tasks :
    /\ pc[t] = "getItems"
    /\ loc[t].op \in {"remove", "update"}
    /\ ~ loc[t].err
    /\ \E r \in cart_items : r.id = loc[t].itemId /\ r.user_id # loc[t].u

(* ---- cancellation ---- *)
(* C22: an order becomes cancelled only from a status that is not         *)
(* terminal: updateStatus(order, cancelled) goes through from pending,    *)
(* processing or shipped and fails on a completed order.                  *)
C22_CancelOnlyFromNonTerminal ==
  [][\A o \in DOMAIN orders :
       (orders'[o].status = "cancelled" /\ orders[o].status # "cancelled")
         => orders[o].status \in {"pending", "processing", "shipped"}]_vars

(* ---- concurrent adds ---- *)
(* the user's quantity of product p in the store's rows *)
Held(rows, u, p) == QuantityOf({r \in rows : r.user_id = u}, p)

(* task t sends the write of addItem(p, n), n >= 1, and the store answers; *)
(* no store call has failed, and another addItem(p, m), m >= 1, of the    *)
(* same user is in flight and has already written                         *)
AddWrites(t) ==
  /\ pc[t] = "addItem_write" /\ pc'[t] # pc[t]
  /\ failures' = 0
  /\ loc[t].quantity >= 1
  /\ \E o \in Tasks \ {t} :
       /\ loc[o].op = "add" /\ loc[o].u = loc[t].u /\ loc[o].product = loc[t].product
       /\ loc[o].quantity >= 1 /\ ~ loc[o].err
       /\ pc[o] \in {"getItems", "publish"}

(* C23: an addItem whose insert hits the uniqueness constraint, another   *)
(* call having inserted the line first, is retried as an update that adds *)
(* its quantity to that line.                                             *)
C23_InsertConflictRetried ==
  [][\A t \in Tasks :
       (/\ AddWrites(t)
        /\ loc[t].existing = NoRow
        /\ Held(cart_items, loc[t].u, loc[t].product) > 0)
         => Held(cart_items', loc[t].u, loc[t].product)
              = Held(cart_items, loc[t].u, loc[t].product) + loc[t].quantity]_vars

(* C24: an addItem that found a line adds its quantity to what the line   *)
(* holds when the write is made, so of two calls in flight together no    *)
(* increment is lost.                                                     *)
C24_NoLostIncrement ==
  [][\A t \in Tasks :
       (/\ AddWrites(t)
        /\ loc[t].existing # NoRow
        /\ Held(cart_items, loc[t].u, loc[t].product) > 0)
         => Held(cart_items', loc[t].u, loc[t].product)
              = Held(cart_items, loc[t].u, loc[t].product) + loc[t].quantity]_vars

(* ---- overlapping refreshes ---- *)
(* C25: when the overlapping operations of a session have all completed,  *)
(* no store call having failed and nobody else having written, the view   *)
(* shows the store's rows: a refresh that read earlier never overwrites   *)
(* the result of one that read later.                                     *)
C25_LastRefreshWins ==
  (/\ \A t \in OverlappingTasks : pc[t] = "idle"
   /\ failures = 0
   /\ user["s1"] # NoUser)
    => {Line(i) : i \in state["s1"].items} = {Line(r) : r \in Visible(user["s1"])}

(* ---- checkout whose clear fails ---- *)
(* C26: when createOrder has persisted its order and the clear of the     *)
(* cart fails, the order stays stored as it was built, the user's lines   *)
(* stay in the store, and the view after the refresh shows those lines.   *)
C26_ClearFailureKeepsOrderAndLines ==
  \A k \in 1..Len(hist.ops) :
    LET e == hist.ops[k] IN
    (e.done.op = "checkout" /\ e.done.result = "ok" /\ e.done.err)
      => /\ \E o \in DOMAIN orders :
              [orders[o] EXCEPT !.status = "pending"] = e.done.order
         /\ e.post = e.done.pre
         /\ {Line(i) : i \in e.view.items} = {Line(r) : r \in e.post}

(* ---- refresh of a cart holding a line whose product does not resolve -- *)
(* C27: a refresh whose read answered drops every fetched line whose      *)
(* product did not resolve and publishes the remaining lines with the     *)
(* totals computed from them; it completes instead of failing.            *)
C27_UnresolvedLinesDropped ==
  [][\A t \in Tasks :
       (pc[t] = "publish" /\ pc'[t] = "idle" /\ ~ loc[t].readFailed)
         => LET kept == {i \in loc[t].fetched : i.product.resolved}
            IN state'[loc[t].sess] =
                 [items |-> kept, total |-> SumAmount(kept),
                  itemCount |-> SumQuantity(kept), loading |-> FALSE]]_vars

(* ---- the view across sign-out and in-flight refreshes ---------------- *)
Pending(s) == \E t \in TabTasks : TaskSession(t) = s /\ pc[t] # "idle"

(* C28: the view never shows lines of a user other than the one signed    *)
(* in; whenever a session has no user and no refresh pending, its view    *)
(* is empty.                                                              *)
C28_ViewOfCurrentUserOnly ==
  \A s \in Sessions :
    /\ (user[s] = NoUser /\ ~ Pending(s)) => NoLines(state[s])
    /\ \A i \in state[s].items :
         \A r \in cart_items : r.id = i.id => r.user_id = user[s]

(* ---- checkout against a cart another session changed ---------------- *)
(* C29: every line of an active product that the clear of a successful    *)
(* createOrder deletes is in that order's items with the same quantity.   *)
C29_ClearedLinesAreOrdered ==
  [][\A t \in TabTasks :
       (pc[t] = "checkout_clear" /\ pc'[t] = "getItems")
         => \A r \in cart_items \ cart_items' :
              products[r.product_id].is_active
                => \E x \in loc[t].order.products :
                     x.product_id = r.product_id /\ x.quantity = r.quantity]_vars

(* ---- derived totals of the view -------------------------------------- *)
Recomputed(v) ==
  /\ v.total = calculateTotals(v.items).total
  /\ v.itemCount = calculateTotals(v.items).itemCount

(* C30: in every state the view's total and itemCount are the values      *)
(* recomputed from its items (both 0 when it has none), and no step       *)
(* changes the totals while leaving the items as they were.               *)
C30_TotalsDerivedFromItems ==
  /\ [](\A s \in Sessions :
          /\ Recomputed(state[s])
          /\ state[s].items = {} => state[s].total = 0 /\ state[s].itemCount = 0)
  /\ [][\A s \in Sessions :
          (state'[s].total # state[s].total \/ state'[s].itemCount # state[s].itemCount)
            => state'[s].items # state[s].items]_vars

(* a view republished after a quantity change: polo x3 at 3 * 249.00 *)
C30_RepublishedTotals ==
  \E s \in Sessions :
    /\ \E i \in state[s].items : i.quantity = 3 /\ i.product_id = "pA"
    /\ state[s].itemCount = 3
    /\ state[s].total = 3 * PriceA

====
